---- MODULE Spec2Model ----
(***************************************************************************)
(* Model of src/app.py: the Flask webhook of the Tabor Systems Telegram    *)
(* bot.  One webhook request is processed at a time: the update is         *)
(* decoded, dispatched to start / handle_callback / handle_message, and   *)
(* handle_message runs generate_response_with_retry, the retry loop       *)
(* around the language-model call.                                        *)
(*                                                                         *)
(* Display strings are abbreviated in ASCII; each name below stands for    *)
(* the literal of the source line given in the comment.                    *)
(***************************************************************************)
EXTENDS Integers, Sequences, FiniteSets, TLC

(* ---------------- bounds ---------------- *)
NumUsers == 2
NumProcs == 2     \* webhook deliveries in flight at once (ConcSpec)

Users == 1..NumUsers
Procs == 1..NumProcs

(* ---------------- program constants (app.py 23-26) ---------------- *)
LANG_AMHARIC == "AM"
LANG_ENGLISH == "EN"
ACTION_ABOUT == "ABOUT_CH"
MAX_RETRIES == 3

(* ---------------- display strings ---------------- *)
MSG_NO_KEY     == "AM: sorry, the bot API key is not configured"      \* line 58
MSG_QUOTA      == "AM: sorry, the daily usage limit is reached"       \* line 69
MSG_API_ERROR  == "AM: sorry, technical problem, cannot answer"       \* line 77
MSG_UNEXPECTED == "AM: sorry, unknown connection interruption"        \* line 85
MSG_ALL_FAILED == "AM: sorry, all answer attempts failed"             \* line 86
PICKER_TEXT    == "AM+EN: please select your preferred language"      \* line 96
BTN_AMHARIC    == "Amharic"                                           \* line 91
BTN_ENGLISH    == "English"                                           \* line 92
DEFAULT_NAME   == "AM: sir"                                           \* line 104
ABOUT_BTN_AM   == "AM: about the channel"                             \* line 110
ABOUT_BTN_EN   == "About Channel"                                     \* line 113
ABOUT_TEXT_AM  == "AM: Tabor Systems channel focuses on ..."          \* line 124
ABOUT_TEXT_EN  == "Tabor Systems Channel focuses on ..."              \* line 126
INDEX_TEXT     == "Tabor Systems AI Bot Webhook is running."          \* line 174
NoLang         == "unset"     \* 'lang' key absent from user_data

(* ---------------- inputs ---------------- *)
\* response.text of a model call that returned: empty or some text
ModelTexts == {"", "model answer A", "model answer B"}
\* exceptions a model call can raise
ProviderErrors == {"ResourceExhaustedError", "APIError", "RuntimeError"}
\* the outcome of one model.generate_content call
Outcomes ==
    [kind : {"text"}, text : ModelTexts, exc : {"none"}]
      \cup [kind : {"raise"}, text : {""}, exc : ProviderErrors]
\* text of a plain message, first name of the tapping user, callback data
MessageTexts == {"hello", "what is Tabor Systems?"}
FirstNames == {"", "Abebe"}
CallbackData == {LANG_AMHARIC, LANG_ENGLISH, ACTION_ABOUT, "OTHER"}

NoOutcome == [kind |-> "none", text |-> "", exc |-> "NameError"]

(* ---------------- generate_response_with_retry, app.py 55-86 ------- *)

\* line 57: `if not GENAI_API_KEY`
KeyMissing_AlwaysPresent(key) == FALSE
KeyMissing(key) == ~key

\* line 63: `if not response.text`
IsEmptyText_Never(text) == FALSE
IsEmptyText(text) == text = ""

\* lines 62-65: what the try body does with one call's outcome.  With the
\* module-level name `model` unbound (lines 41-51) evaluating it raises
\* NameError before any call is made.
TryBody_EmptyAsApiError(defined, o) ==
    IF ~defined THEN [ret |-> FALSE, text |-> "", exc |-> "NameError"]
    ELSE IF o.kind = "raise" THEN [ret |-> FALSE, text |-> "", exc |-> o.exc]
    ELSE IF IsEmptyText(o.text)
         THEN [ret |-> FALSE, text |-> "", exc |-> "APIError"]
         ELSE [ret |-> TRUE, text |-> o.text, exc |-> "none"]
TryBody(defined, o) ==
    IF ~defined THEN [ret |-> FALSE, text |-> "", exc |-> "NameError"]
    ELSE IF o.kind = "raise" THEN [ret |-> FALSE, text |-> "", exc |-> o.exc]
    ELSE IF IsEmptyText(o.text)
         THEN [ret |-> FALSE, text |-> "", exc |-> "Exception"]
         ELSE [ret |-> TRUE, text |-> o.text, exc |-> "none"]

\* lines 67, 71, 79: the except clause that catches an exception (first match)
ExceptClause_NoCatchAll(exc) ==
    IF exc = "ResourceExhaustedError" THEN "quota"
    ELSE IF exc = "APIError" THEN "api"
    ELSE "uncaught"
ExceptClause_QuotaAsApi(exc) ==
    IF exc \in {"ResourceExhaustedError", "APIError"} THEN "api"
    ELSE "generic"
ExceptClause_ApiAsGeneric(exc) ==
    IF exc = "ResourceExhaustedError" THEN "quota" ELSE "generic"
ExceptClause(exc) ==
    IF exc = "ResourceExhaustedError" THEN "quota"
    ELSE IF exc = "APIError" THEN "api"
    ELSE "generic"

RECURSIVE Pow2(_)
Pow2(n) == IF n = 0 THEN 1 ELSE 2 * Pow2(n - 1)

\* lines 75, 83: `time.sleep(2 ** attempt)`
Backoff_Linear(a) == 2 * a
Backoff_Base3(a) == 3 ^ a
Backoff(a) == Pow2(a)

CallEv(prompt) == [ev |-> "call", prompt |-> prompt, secs |-> 0]
SleepEv(secs)  == [ev |-> "sleep", prompt |-> "", secs |-> secs]

\* The state of one invocation: the loop index, the calls and sleeps made so
\* far (in order), and how it ended.
GenStart(key) ==
    IF KeyMissing(key)
    THEN [attempt |-> 0, log |-> << >>, status |-> "returned", result |-> MSG_NO_KEY]
    ELSE [attempt |-> 0, log |-> << >>, status |-> "running", result |-> ""]

\* lines 73-77 and 81-85: retry with a sleep, or give up on the last attempt;
\* falling out of the loop reaches line 86.
FailBranch_SleepAfterIncrement(g, log1, lastMsg) ==
    IF g.attempt < MAX_RETRIES - 1
    THEN [g EXCEPT !.log = Append(log1, SleepEv(Backoff(g.attempt + 1))),
                   !.attempt = g.attempt + 1]
    ELSE [g EXCEPT !.log = log1, !.status = "returned", !.result = lastMsg]
FailBranch_SleepsOnLastAttempt(g, log1, lastMsg) ==
    LET g1 == [g EXCEPT !.log = Append(log1, SleepEv(Backoff(g.attempt))),
                        !.attempt = g.attempt + 1]
    IN  IF g1.attempt < MAX_RETRIES THEN g1
        ELSE [g1 EXCEPT !.status = "returned", !.result = MSG_ALL_FAILED]
FailBranch(g, log1, lastMsg) ==
    IF g.attempt < MAX_RETRIES - 1
    THEN LET g1 == [g EXCEPT !.log = Append(log1, SleepEv(Backoff(g.attempt))),
                             !.attempt = g.attempt + 1]
         IN  IF g1.attempt < MAX_RETRIES THEN g1
             ELSE [g1 EXCEPT !.status = "returned", !.result = MSG_ALL_FAILED]
    ELSE [g EXCEPT !.log = log1, !.status = "returned", !.result = lastMsg]

\* lines 60-85: one iteration of `for attempt in range(MAX_RETRIES)`
GenStep(g, defined, prompt, o) ==
    LET log1 == IF defined THEN Append(g.log, CallEv(prompt)) ELSE g.log
        r    == TryBody(defined, o)
        c    == ExceptClause(r.exc)
    IN  IF r.ret
        THEN [g EXCEPT !.log = log1, !.status = "returned", !.result = r.text]
        ELSE IF c = "quota"
        THEN [g EXCEPT !.log = log1, !.status = "returned", !.result = MSG_QUOTA]
        ELSE IF c = "api" THEN FailBranch(g, log1, MSG_API_ERROR)
        ELSE IF c = "generic" THEN FailBranch(g, log1, MSG_UNEXPECTED)
        ELSE [g EXCEPT !.log = log1, !.status = "raised"]

\* the whole function on a given sequence of per-attempt outcomes
RECURSIVE GenRun(_, _, _, _)
GenRun(g, defined, prompt, os) ==
    IF g.status # "running" \/ os = << >> THEN g
    ELSE GenRun(GenStep(g, defined, prompt, Head(os)), defined, prompt, Tail(os))

(* ---------------- handlers' texts ---------------- *)

\* line 104
UserName(first_name) == IF first_name # "" THEN first_name ELSE DEFAULT_NAME

\* line 106: `if data in [LANG_AMHARIC, LANG_ENGLISH]`
IsLanguage_Any(data) == data # ACTION_ABOUT
IsLanguage(data) == data \in {LANG_AMHARIC, LANG_ENGLISH}

\* lines 108-113
WelcomeText_AlwaysEnglish(data, name) ==
    "Hello " \o name \o ", welcome to Tabor Systems AI."
WelcomeText(data, name) ==
    IF data = LANG_AMHARIC
    THEN "AM: hello " \o name \o ", welcome to Tabor Systems Ai"
    ELSE "Hello " \o name \o ", welcome to Tabor Systems AI."
AboutButton(data) ==
    IF data = LANG_AMHARIC THEN ABOUT_BTN_AM ELSE ABOUT_BTN_EN

\* line 122: `context.user_data.get('lang', LANG_AMHARIC)`
StoredLang_DefaultEnglish(ud) == IF ud = NoLang THEN LANG_ENGLISH ELSE ud
StoredLang(ud) == IF ud = NoLang THEN LANG_AMHARIC ELSE ud

\* lines 123-126
AboutText(lang) == IF lang = LANG_AMHARIC THEN ABOUT_TEXT_AM ELSE ABOUT_TEXT_EN

Button(label, data) == [label |-> label, data |-> data]
Sent(api, chat, text, buttons) ==
    [api |-> api, chat |-> chat, text |-> text, buttons |-> buttons]

(* ---------------- state ---------------- *)
VARIABLES
    GENAI_API_KEY,   \* line 15: is the key set (non-empty)
    model,           \* lines 41-51: is the name `model` bound
    dispatcher,      \* lines 141-144: is the dispatcher built (TELEGRAM_TOKEN set)
    user_data,       \* context.user_data['lang'] of every user
    pc,              \* position of the request being processed
    req,             \* the request being processed
    gen,             \* the running generate_response_with_retry invocation
    genOutcomes,     \* the provider outcomes this invocation has consumed
    sent,            \* chat-platform calls made for this request, in order
    response,        \* HTTP response of the request
    lastTap,         \* history: language of each user's latest language tap
    inflight         \* ConcSpec: the deliveries being handled simultaneously

vars == << GENAI_API_KEY, model, dispatcher, user_data, pc, req, gen,
           genOutcomes, sent, response, lastTap, inflight >>

config == << GENAI_API_KEY, model, dispatcher >>

NoReq == [kind |-> "none", user |-> 1, data |-> "", text |-> "", name |-> ""]
NoDelivery == [pc |-> "idle", req |-> NoReq, seen |-> {}, text |-> ""]
NoGen == [attempt |-> 0, log |-> << >>, status |-> "idle", result |-> ""]

\* request bodies: the three update kinds the dispatcher has handlers for, an
\* update no handler matches, and a body that is not JSON
Requests ==
    [kind : {"command_start"}, user : Users, data : {""}, text : {"/start"}, name : {""}]
      \cup [kind : {"callback"}, user : Users, data : CallbackData, text : {""}, name : FirstNames]
      \cup [kind : {"text"}, user : Users, data : {""}, text : MessageTexts, name : {""}]
      \cup [kind : {"unhandled"}, user : Users, data : {""}, text : {""}, name : {""}]
      \cup [kind : {"not_json"}, user : {1}, data : {""}, text : {""}, name : {""}]

Init ==
    /\ GENAI_API_KEY \in BOOLEAN
    /\ model \in (IF GENAI_API_KEY THEN BOOLEAN ELSE {FALSE})
    /\ dispatcher \in BOOLEAN
    /\ user_data = [u \in Users |-> NoLang]
    /\ pc = "idle"
    /\ req = NoReq
    /\ gen = NoGen
    /\ genOutcomes = << >>
    /\ sent = << >>
    /\ response = "none"
    /\ lastTap = [u \in Users |-> NoLang]
    /\ inflight = [p \in Procs |-> NoDelivery]

(* ---------------- webhook, app.py 176-183 ---------------- *)

\* lines 147-149: the handler the dispatcher runs for an update
HandlerFor(kind) ==
    CASE kind = "command_start" -> "start"
      [] kind = "callback" -> "handle_callback"
      [] kind = "text" -> "handle_message"
      [] OTHER -> "respond"

webhook_NoDispatcherGuard ==
    /\ pc = "idle"
    /\ \E r \in Requests :
         /\ req' = r
         /\ IF r.kind = "not_json"
            THEN pc' = "idle" /\ response' = "400"
            ELSE pc' = HandlerFor(r.kind) /\ response' = "none"
    /\ gen' = NoGen
    /\ genOutcomes' = << >>
    /\ sent' = << >>
    /\ UNCHANGED << config, inflight, user_data, lastTap >>
webhook_RespondsBeforeHandler ==
    /\ pc = "idle"
    /\ \E r \in Requests :
         /\ req' = r
         /\ IF ~dispatcher
            THEN pc' = "idle" /\ response' = "200 ok"
            ELSE IF r.kind = "not_json"
            THEN pc' = "idle" /\ response' = "400"
            ELSE pc' = HandlerFor(r.kind) /\ response' = "200 ok"
    /\ gen' = NoGen
    /\ genOutcomes' = << >>
    /\ sent' = << >>
    /\ UNCHANGED << config, inflight, user_data, lastTap >>
\* A request arrives.  Without a dispatcher the body is not read.  A body that
\* is not JSON makes request.get_json(force=True) raise BadRequest, which
\* nothing catches: the response is 400.
webhook ==
    /\ pc = "idle"
    /\ \E r \in Requests :
         /\ req' = r
         /\ IF ~dispatcher
            THEN pc' = "idle" /\ response' = "200 ok"
            ELSE IF r.kind = "not_json"
            THEN pc' = "idle" /\ response' = "400"
            ELSE pc' = HandlerFor(r.kind) /\ response' = "none"
    /\ gen' = NoGen
    /\ genOutcomes' = << >>
    /\ sent' = << >>
    /\ UNCHANGED << config, inflight, user_data, lastTap >>

\* lines 171-174: GET / answers the liveness string; no handler is involved
IndexReq == [kind |-> "index", user |-> 1, data |-> "", text |-> "", name |-> ""]
index ==
    /\ pc = "idle"
    /\ req' = IndexReq
    /\ response' = INDEX_TEXT
    /\ gen' = NoGen
    /\ genOutcomes' = << >>
    /\ sent' = << >>
    /\ UNCHANGED << config, inflight, pc, user_data, lastTap >>

\* line 183, after process_update has returned
respond ==
    /\ pc = "respond"
    /\ response' = "200 ok"
    /\ pc' = "idle"
    /\ UNCHANGED << config, inflight, user_data, req, gen, genOutcomes, sent, lastTap >>

(* ---------------- start, app.py 89-98 ---------------- *)
start_ClearsLang ==
    /\ pc = "start"
    /\ sent' = Append(sent, Sent("reply_text", req.user, PICKER_TEXT,
                   << Button(BTN_AMHARIC, LANG_AMHARIC),
                      Button(BTN_ENGLISH, LANG_ENGLISH) >>))
    /\ user_data' = [user_data EXCEPT ![req.user] = NoLang]
    /\ pc' = "respond"
    /\ UNCHANGED << config, inflight, req, gen, genOutcomes, response, lastTap >>
start ==
    /\ pc = "start"
    /\ sent' = Append(sent, Sent("reply_text", req.user, PICKER_TEXT,
                   << Button(BTN_AMHARIC, LANG_AMHARIC),
                      Button(BTN_ENGLISH, LANG_ENGLISH) >>))
    /\ pc' = "respond"
    /\ UNCHANGED << config, inflight, user_data, req, gen, genOutcomes, response, lastTap >>

(* ---------------- handle_callback, app.py 100-127 ---------------- *)
handle_callback_AboutStoresDefault ==
    /\ pc = "handle_callback"
    /\ LET answered == Append(sent, Sent("answer", req.user, "", << >>))
           name == UserName(req.name)
       IN  IF IsLanguage(req.data)
           THEN /\ user_data' = [user_data EXCEPT ![req.user] = req.data]
                /\ sent' = Append(answered,
                       Sent("edit_message_text", req.user,
                            WelcomeText(req.data, name),
                            << Button(AboutButton(req.data), ACTION_ABOUT) >>))
           ELSE IF req.data = ACTION_ABOUT
           THEN /\ user_data' = [user_data EXCEPT
                                    ![req.user] = StoredLang(user_data[req.user])]
                /\ sent' = Append(answered,
                       Sent("send_message", req.user,
                            AboutText(StoredLang(user_data[req.user])), << >>))
           ELSE /\ user_data' = user_data
                /\ sent' = answered
    /\ lastTap' = IF req.data \in {LANG_AMHARIC, LANG_ENGLISH}
                  THEN [lastTap EXCEPT ![req.user] = req.data]
                  ELSE lastTap
    /\ pc' = "respond"
    /\ UNCHANGED << config, inflight, req, gen, genOutcomes, response >>
handle_callback ==
    /\ pc = "handle_callback"
    /\ LET answered == Append(sent, Sent("answer", req.user, "", << >>))
           name == UserName(req.name)
       IN  IF IsLanguage(req.data)
           THEN /\ user_data' = [user_data EXCEPT ![req.user] = req.data]
                /\ sent' = Append(answered,
                       Sent("edit_message_text", req.user,
                            WelcomeText(req.data, name),
                            << Button(AboutButton(req.data), ACTION_ABOUT) >>))
           ELSE IF req.data = ACTION_ABOUT
           THEN /\ user_data' = user_data
                /\ sent' = Append(answered,
                       Sent("send_message", req.user,
                            AboutText(StoredLang(user_data[req.user])), << >>))
           ELSE /\ user_data' = user_data
                /\ sent' = answered
    /\ lastTap' = IF req.data \in {LANG_AMHARIC, LANG_ENGLISH}
                  THEN [lastTap EXCEPT ![req.user] = req.data]
                  ELSE lastTap
    /\ pc' = "respond"
    /\ UNCHANGED << config, inflight, req, gen, genOutcomes, response >>

(* ---------------- handle_message, app.py 130-136 ---------------- *)

\* lines 131-135 up to the first loop iteration: the typing indicator, then
\* the call of generate_response_with_retry reaches its loop or returns
handle_message_NoTyping ==
    /\ pc = "handle_message"
    /\ sent' = sent
    /\ gen' = GenStart(GENAI_API_KEY)
    /\ pc' = IF gen'.status = "running" THEN "generate" ELSE "reply"
    /\ UNCHANGED << config, inflight, user_data, req, genOutcomes, response, lastTap >>
handle_message ==
    /\ pc = "handle_message"
    /\ sent' = Append(sent, Sent("send_chat_action", req.user, "typing", << >>))
    /\ gen' = GenStart(GENAI_API_KEY)
    /\ pc' = IF gen'.status = "running" THEN "generate" ELSE "reply"
    /\ UNCHANGED << config, inflight, user_data, req, genOutcomes, response, lastTap >>

\* one loop iteration of generate_response_with_retry on this call's outcome
generate_attempt ==
    /\ pc = "generate"
    /\ \E o \in (IF model THEN Outcomes ELSE {NoOutcome}) :
         /\ gen' = GenStep(gen, model, req.text, o)
         /\ genOutcomes' = Append(genOutcomes, o)
    /\ pc' = CASE gen'.status = "running" -> "generate"
               [] gen'.status = "returned" -> "reply"
               [] OTHER -> "respond"
    /\ UNCHANGED << config, inflight, user_data, req, sent, response, lastTap >>

\* line 136
reply ==
    /\ pc = "reply"
    /\ sent' = Append(sent, Sent("reply_text", req.user, gen.result, << >>))
    /\ pc' = "respond"
    /\ UNCHANGED << config, inflight, user_data, req, gen, genOutcomes, response, lastTap >>

Next ==
    \/ index
    \/ webhook
    \/ respond
    \/ start
    \/ handle_callback
    \/ handle_message
    \/ generate_attempt
    \/ reply

Spec == Init /\ [][Next]_vars

FairSpec ==
    Spec /\ WF_vars(respond) /\ WF_vars(start) /\ WF_vars(handle_callback)
         /\ WF_vars(handle_message) /\ WF_vars(generate_attempt) /\ WF_vars(reply)

(* ---------------- simultaneous deliveries ---------------- *)
(* Several POST /telegram requests carrying callback updates are handled   *)
(* at once; a handler gives way to the others at its awaits: query.answer  *)
(* (line 102) and edit_message_text / send_message (lines 119, 127).       *)
(* Lines 103-118 and 121-126 run without interruption.  The sessions the   *)
(* deliveries find are any the serial program can have left behind.        *)

ConcRequests == {r \in Requests : r.kind = "callback" /\ r.name = ""}

\* (the language-model key plays no part in callback handling)
ConcInit ==
    /\ GENAI_API_KEY = TRUE
    /\ model = TRUE
    /\ dispatcher \in BOOLEAN
    /\ user_data \in [Users -> {NoLang, LANG_AMHARIC, LANG_ENGLISH}]
    /\ lastTap = user_data
    /\ pc = "idle"
    /\ req = NoReq
    /\ gen = NoGen
    /\ genOutcomes = << >>
    /\ sent = << >>
    /\ response = "none"
    /\ inflight = [p \in Procs |-> NoDelivery]

serial == << pc, req, gen, genOutcomes, sent, response, lastTap >>

\* lines 176-182 and 100-102: the delivery is decoded and dispatched, and
\* handle_callback waits for query.answer; without a dispatcher it is done
c_webhook(p) ==
    /\ inflight[p].pc = "idle"
    /\ \E r \in ConcRequests :
         inflight' = [inflight EXCEPT ![p] =
             [pc |-> IF dispatcher THEN "answer" ELSE "done",
              req |-> r,
              seen |-> IF dispatcher THEN {user_data[r.user]} ELSE {},
              text |-> ""]]
    /\ UNCHANGED << config, user_data, serial >>

\* the deliveries that wait in query.answer for the same user see the store
Observe(fl, p, u, lang) ==
    [q \in Procs |->
        IF q # p /\ fl[q].pc = "answer" /\ fl[q].req.user = u
        THEN [fl[q] EXCEPT !.seen = fl[q].seen \cup {lang}]
        ELSE fl[q]]

\* lines 103-119 and 121-127, from the return of query.answer to the next await
c_body_SharedCurrentUser(p) ==
    /\ inflight[p].pc = "answer"
    /\ \E q \in Procs :
        LET r == inflight[p].req
            u == IF inflight[q].pc # "idle" THEN inflight[q].req.user ELSE r.user
        IN  IF IsLanguage(r.data)
            THEN /\ user_data' = [user_data EXCEPT ![u] = r.data]
                 /\ inflight' = [Observe(inflight, p, u, r.data) EXCEPT
                        ![p].pc = "send",
                        ![p].text = WelcomeText(r.data, UserName(r.name))]
            ELSE IF r.data = ACTION_ABOUT
            THEN /\ user_data' = user_data
                 /\ inflight' = [inflight EXCEPT
                        ![p].pc = "send",
                        ![p].text = AboutText(StoredLang(user_data[u]))]
            ELSE /\ user_data' = user_data
                 /\ inflight' = [inflight EXCEPT ![p].pc = "done"]
    /\ UNCHANGED << config, serial >>
c_body(p) ==
    /\ inflight[p].pc = "answer"
    /\ LET r == inflight[p].req
       IN  IF IsLanguage(r.data)
           THEN /\ user_data' = [user_data EXCEPT ![r.user] = r.data]
                /\ inflight' = [Observe(inflight, p, r.user, r.data) EXCEPT
                       ![p].pc = "send",
                       ![p].text = WelcomeText(r.data, UserName(r.name))]
           ELSE IF r.data = ACTION_ABOUT
           THEN /\ user_data' = user_data
                /\ inflight' = [inflight EXCEPT
                       ![p].pc = "send",
                       ![p].text = AboutText(StoredLang(user_data[r.user]))]
           ELSE /\ user_data' = user_data
                /\ inflight' = [inflight EXCEPT ![p].pc = "done"]
    /\ UNCHANGED << config, serial >>

\* lines 119 / 127 return, process_update returns, line 183
c_finish(p) ==
    /\ inflight[p].pc = "send"
    /\ inflight' = [inflight EXCEPT ![p].pc = "done"]
    /\ UNCHANGED << config, user_data, serial >>

ConcNext ==
    \E p \in Procs :
        \/ c_webhook(p)
        \/ c_body(p)
        \/ c_finish(p)

ConcSpec == ConcInit /\ [][ConcNext]_vars

(* ======================= properties ======================= *)

Quota    == [kind |-> "raise", text |-> "", exc |-> "ResourceExhaustedError"]
ApiErr   == [kind |-> "raise", text |-> "", exc |-> "APIError"]
OtherErr == [kind |-> "raise", text |-> "", exc |-> "RuntimeError"]
EmptyResp == [kind |-> "text", text |-> "", exc |-> "none"]

NumCalls(log)  == Cardinality({i \in 1..Len(log) : log[i].ev = "call"})
NumSleeps(log) == Cardinality({i \in 1..Len(log) : log[i].ev = "sleep"})
GenReturned == gen.status = "returned"

\* C1: whatever the prompt and the per-attempt outcomes (text, empty text,
\* quota exhaustion, API error, any other exception, `model` unbound),
\* generate_response_with_retry never lets an exception out: it is running or
\* has returned a string, and handle_message reaches its reply only with a
\* returned string.
C1_NoExceptionPropagates ==
    /\ gen.status # "raised"
    /\ pc = "generate" => gen.status = "running"
    /\ pc = "reply" => gen.status = "returned"
    /\ (req.kind = "text" /\ pc = "respond") =>
          /\ gen.status = "returned"
          /\ sent[Len(sent)] = Sent("reply_text", req.user, gen.result, << >>)

C1_Witness ==
    /\ GenReturned
    /\ genOutcomes = << OtherErr, EmptyResp, ApiErr >>

\* C2: the function returns a non-empty string after at most 3 loop
\* iterations and at most 3 model calls, with or without a key: while it runs
\* the loop index equals the number of outcomes consumed and is below 3.
C2_NonEmptyWithin3Calls ==
    /\ NumCalls(gen.log) <= 3
    /\ Len(genOutcomes) <= 3
    /\ gen.status = "running" => gen.attempt = Len(genOutcomes) /\ gen.attempt < 3
    /\ gen.status \in {"idle", "running", "returned"}
    /\ GenReturned => gen.result # "" /\ Len(gen.result) > 0
    /\ pc = "reply" => GenReturned

C2_Witness ==
    /\ GenReturned
    /\ NumCalls(gen.log) = 3
    /\ gen.result \in ModelTexts

\* C3: a quota-exhaustion error ends the function at once with the fixed
\* daily-limit string: the call that raised it is the last event (no retry,
\* no sleep after it), and when the provider answers the first call with it
\* exactly one call and no sleep have been made.
C3_QuotaShortCircuits ==
    \A k \in 1..Len(genOutcomes) :
       genOutcomes[k] = Quota =>
          /\ k = Len(genOutcomes)
          /\ GenReturned
          /\ gen.result = MSG_QUOTA
          /\ NumCalls(gen.log) = k
          /\ gen.log[Len(gen.log)] = CallEv(req.text)
          /\ k = 1 => gen.log = << CallEv(req.text) >>

C3_Witness ==
    /\ genOutcomes = << Quota >>
    /\ gen.log = << CallEv(req.text) >>
    /\ gen.result = MSG_QUOTA

\* C4: when every attempt fails with a provider API error, the function makes
\* exactly 3 calls with a 1s sleep after the first and a 2s sleep after the
\* second, and returns the API-error fallback string.
C4_ApiErrorEveryAttempt ==
    /\ (genOutcomes = << ApiErr >>) =>
          gen.status = "running"
          /\ gen.log = << CallEv(req.text), SleepEv(1) >>
    /\ (genOutcomes = << ApiErr, ApiErr >>) =>
          gen.status = "running"
          /\ gen.log = << CallEv(req.text), SleepEv(1),
                          CallEv(req.text), SleepEv(2) >>
    /\ (genOutcomes = << ApiErr, ApiErr, ApiErr >>) =>
          /\ GenReturned
          /\ gen.log = << CallEv(req.text), SleepEv(1),
                          CallEv(req.text), SleepEv(2), CallEv(req.text) >>
          /\ gen.result = MSG_API_ERROR

C4_Witness ==
    /\ genOutcomes = << ApiErr, ApiErr, ApiErr >>
    /\ gen.result = MSG_API_ERROR

\* C5: with no key configured the function returns the missing-key string at
\* once, for every prompt: no loop iteration, no model call, no sleep.
C5_NoKeyNoCall ==
    (~GENAI_API_KEY /\ req.kind = "text" /\ pc \in {"generate", "reply", "respond"}) =>
        /\ GenReturned
        /\ gen.result = MSG_NO_KEY
        /\ gen.log = << >>
        /\ genOutcomes = << >>
        /\ pc # "generate"

C5_Witness ==
    /\ ~GENAI_API_KEY
    /\ pc = "respond"
    /\ req.kind = "text"
    /\ sent[Len(sent)].text = MSG_NO_KEY

\* C6: an empty-text response counts as an unexpected (non-quota, non-API)
\* exception: replacing, at any set of attempts, the exception raised by the
\* call by an empty-text response gives the same calls, the same sleeps, the
\* same status and the same returned string.
ReplaceByEmpty(os, S) ==
    [i \in 1..Len(os) |-> IF i \in S /\ os[i] = OtherErr THEN EmptyResp ELSE os[i]]

C6_EmptyTextAsException ==
    (model /\ gen.status # "idle") =>
        \A S \in SUBSET (1..Len(genOutcomes)) :
            GenRun(GenStart(GENAI_API_KEY), model, req.text,
                   ReplaceByEmpty(genOutcomes, S)) = gen

C6_Witness ==
    /\ GenReturned
    /\ genOutcomes = << OtherErr, ApiErr, OtherErr >>
    /\ gen.result = MSG_UNEXPECTED

\* C7: POST /telegram always responds 200 "ok", whatever the body.
C7_AlwaysOk == req.kind # "index" => response \in {"none", "200 ok"}

\* C8: pressing About sends, as a new message, the description text of the
\* language of the user's latest language tap, Amharic when the user never
\* tapped one, whatever /start commands and text messages came in between.
C8_AboutInStoredLanguage ==
    (pc = "respond" /\ req.kind = "callback" /\ req.data = ACTION_ABOUT) =>
        /\ Len(sent) = 2
        /\ sent[2] = Sent("send_message", req.user,
                          IF lastTap[req.user] = LANG_ENGLISH
                          THEN ABOUT_TEXT_EN ELSE ABOUT_TEXT_AM, << >>)

C8_Witness ==
    /\ pc = "respond" /\ req.kind = "callback" /\ req.data = ACTION_ABOUT
    /\ lastTap[req.user] = LANG_ENGLISH
    /\ sent[2].text = ABOUT_TEXT_EN
    /\ \E u \in Users : lastTap[u] = NoLang

\* C9: /start, in any state, sends the two-button language picker and leaves
\* every user's stored language as it was.
C9_StartKeepsLanguage ==
    [][pc = "start" =>
          /\ user_data' = user_data
          /\ sent' = << Sent("reply_text", req.user, PICKER_TEXT,
                             << Button(BTN_AMHARIC, LANG_AMHARIC),
                                Button(BTN_ENGLISH, LANG_ENGLISH) >>) >>
          /\ pc' = "respond"]_vars

C9_Witness ==
    /\ pc = "respond"
    /\ req.kind = "command_start"
    /\ user_data[req.user] = LANG_ENGLISH
    /\ Len(sent) = 1

\* C10: every user's stored language is absent or one of AM, EN, whatever
\* callback data arrives.
C10_LanguageValid ==
    \A u \in Users : user_data[u] \in {NoLang, LANG_AMHARIC, LANG_ENGLISH}

C10_Witness ==
    /\ pc = "respond"
    /\ req.kind = "callback"
    /\ req.data = "OTHER"
    /\ user_data[req.user] = LANG_ENGLISH

\* C11: with the bot credential absent no dispatcher exists: GET / answers
\* the liveness string and every POST /telegram answers "ok" without decoding
\* or dispatching, so no handler runs, nothing is sent and no session changes.
C11_NoTokenNoHandling ==
    ~dispatcher =>
        /\ pc = "idle"
        /\ sent = << >>
        /\ gen = NoGen
        /\ user_data = [u \in Users |-> NoLang]
        /\ req.kind = "index" => response = INDEX_TEXT
        /\ req.kind \notin {"index", "none"} => response = "200 ok"

C11_Witness ==
    /\ ~dispatcher
    /\ req.kind = "not_json"
    /\ response = "200 ok"

\* C12: for a text message the typing indicator is the first thing sent,
\* before any model call; every model call carries the raw message text; the
\* one reply carries the returned string and is sent only after the
\* completion client has returned.
Typing == Sent("send_chat_action", req.user, "typing", << >>)

C12_TypingThenCallThenReply ==
    (dispatcher /\ req.kind = "text") =>
        /\ gen.status # "idle" => Len(sent) >= 1 /\ sent[1] = Typing
        /\ \A i \in 1..Len(gen.log) :
              gen.log[i].ev = "call" => gen.log[i].prompt = req.text
        /\ gen.status \in {"idle", "running"} => Len(sent) <= 1
        /\ pc = "reply" => GenReturned /\ sent = << Typing >>
        /\ pc \in {"respond", "idle"} =>
              /\ GenReturned
              /\ sent = << Typing, Sent("reply_text", req.user, gen.result, << >>) >>

C12_Witness ==
    /\ dispatcher /\ req.kind = "text" /\ pc = "respond"
    /\ Len(gen.log) = 5
    /\ gen.result = "model answer B"
    /\ sent[2].text = "model answer B"

\* C13: the response to POST /telegram is produced only after the handler of
\* the update has finished (all retries and sleeps included), and while a
\* handler is at work no response has been given.
HandlerFinished ==
    CASE req.kind = "text" ->
            /\ GenReturned
            /\ Len(sent) = 2 /\ sent[2].text = gen.result
      [] req.kind = "command_start" -> Len(sent) = 1
      [] req.kind = "callback" ->
            /\ Len(sent) = (IF req.data = "OTHER" THEN 1 ELSE 2)
            /\ req.data \in {LANG_AMHARIC, LANG_ENGLISH} =>
                  user_data[req.user] = req.data
      [] OTHER -> sent = << >>

C13_ResponseAfterHandler ==
    /\ pc # "idle" => response = "none"
    /\ (dispatcher /\ response = "200 ok") => pc = "idle" /\ HandlerFinished

C13_Witness ==
    /\ dispatcher /\ response = "200 ok" /\ req.kind = "text"
    /\ gen.log = << CallEv(req.text), SleepEv(1), CallEv(req.text),
                    SleepEv(2), CallEv(req.text) >>

\* C14: when all 3 attempts fail without quota exhaustion the fallback string
\* depends on the third failure only: the API-error string for an APIError,
\* the unexpected-error string for any other exception or an empty response.
IsFailure(o) == o.kind # "text" \/ o.text = ""

C14_FallbackByLastFailure ==
    (Len(genOutcomes) = 3 /\ IsFailure(genOutcomes[3]) /\ genOutcomes[3] # Quota) =>
        /\ GenReturned
        /\ gen.result = (IF genOutcomes[3] = ApiErr
                         THEN MSG_API_ERROR ELSE MSG_UNEXPECTED)

C14_Witness ==
    /\ genOutcomes = << ApiErr, ApiErr, EmptyResp >>
    /\ gen.result = MSG_UNEXPECTED

\* C15: if attempt k is the first to return non-empty text, the function
\* returns that text after exactly k calls and k-1 sleeps of 1s, 2s in that
\* order; a quota error at attempt k likewise ends it after k calls and k-1
\* sleeps; nothing is called or slept after either.
FullLog(prompt) ==
    << CallEv(prompt), SleepEv(1), CallEv(prompt), SleepEv(2), CallEv(prompt) >>

C15_SuccessAtAttemptK ==
    \A k \in 1..Len(genOutcomes) :
        (~IsFailure(genOutcomes[k]) \/ genOutcomes[k] = Quota) =>
            /\ k = Len(genOutcomes)
            /\ GenReturned
            /\ gen.result = (IF genOutcomes[k] = Quota
                             THEN MSG_QUOTA ELSE genOutcomes[k].text)
            /\ gen.log = SubSeq(FullLog(req.text), 1, 2 * k - 1)
            /\ NumCalls(gen.log) = k /\ NumSleeps(gen.log) = k - 1

C15_Witness ==
    /\ Len(genOutcomes) = 3
    /\ genOutcomes[3].text = "model answer A"
    /\ gen.result = "model answer A"
    /\ pc = "idle"

\* C16: the sleeps of one invocation add up to at most 7 seconds, and the
\* i-th sleep, made after the attempt of zero-based index i-1 failed, lasts
\* 2^(i-1) seconds.
RECURSIVE TotalSleep(_)
TotalSleep(log) ==
    IF log = << >> THEN 0 ELSE Head(log).secs + TotalSleep(Tail(log))

SleepsOf(log) == SelectSeq(log, LAMBDA e : e.ev = "sleep")

C16_BackoffBounded ==
    /\ TotalSleep(gen.log) <= 7
    /\ \A i \in 1..Len(SleepsOf(gen.log)) :
          /\ SleepsOf(gen.log)[i].secs = 2 ^ (i - 1)
          /\ i <= Len(genOutcomes) /\ IsFailure(genOutcomes[i])

C16_Witness ==
    /\ GenReturned
    /\ TotalSleep(gen.log) = 3
    /\ gen.result = MSG_API_ERROR

\* C17: a step changes a session only when it is the handling of a language
\* tap, and then only the tapping user's language: text messages, About,
\* /start and unrecognised callback data change no session.
C17_OnlyTapChangesSession ==
    [][user_data' # user_data =>
          /\ pc = "handle_callback"
          /\ req.data \in {LANG_AMHARIC, LANG_ENGLISH}
          /\ \A u \in Users \ {req.user} : user_data'[u] = user_data[u]
          /\ user_data'[req.user] = req.data]_vars

C17_Witness ==
    /\ pc = "respond" /\ req.kind = "callback" /\ req.data = ACTION_ABOUT
    /\ \E u \in Users \ {req.user} :
          user_data[u] = LANG_ENGLISH /\ user_data[req.user] = LANG_AMHARIC

\* C18: every user's stored language is the language of that user's latest
\* language tap, and the tap's welcome message is in the tapped language and
\* carries exactly one button, About.
C18_LatestTapWins ==
    /\ \A u \in Users : user_data[u] = lastTap[u]
    /\ (pc = "respond" /\ req.kind = "callback"
          /\ req.data \in {LANG_AMHARIC, LANG_ENGLISH}) =>
          /\ Len(sent) = 2
          /\ sent[2].api = "edit_message_text"
          /\ sent[2].text =
                (IF req.data = LANG_AMHARIC
                 THEN "AM: hello " \o UserName(req.name) \o ", welcome to Tabor Systems Ai"
                 ELSE "Hello " \o UserName(req.name) \o ", welcome to Tabor Systems AI.")
          /\ Len(sent[2].buttons) = 1
          /\ sent[2].buttons[1].data = ACTION_ABOUT
          /\ sent[2].buttons[1].label =
                (IF req.data = LANG_AMHARIC THEN ABOUT_BTN_AM ELSE ABOUT_BTN_EN)

C18_Witness ==
    /\ pc = "respond" /\ req.kind = "callback"
    /\ req.data = LANG_AMHARIC
    /\ user_data[req.user] = LANG_AMHARIC
    /\ sent[2].buttons[1].label = ABOUT_BTN_AM
    /\ req.name = "Abebe"

\* C20: the return after the loop is never reached: the function returns on
\* success, on quota exhaustion, or in the third attempt's failure branch.
C20_PostLoopReturnUnreachable ==
    /\ gen.result # MSG_ALL_FAILED
    /\ (GenReturned /\ GENAI_API_KEY) =>
          /\ Len(genOutcomes) >= 1
          /\ LET last == genOutcomes[Len(genOutcomes)]
             IN  \/ ~IsFailure(last) /\ gen.result = last.text
                 \/ last = Quota /\ gen.result = MSG_QUOTA
                 \/ /\ Len(genOutcomes) = MAX_RETRIES
                    /\ gen.attempt = MAX_RETRIES - 1
                    /\ gen.result \in {MSG_API_ERROR, MSG_UNEXPECTED}

C20_Witness ==
    /\ GenReturned
    /\ genOutcomes = << EmptyResp, EmptyResp, EmptyResp >>
    /\ gen.attempt = 2
    /\ gen.result = MSG_UNEXPECTED

\* C19: with deliveries handled simultaneously and interleaved at their
\* awaits, every stored language is absent or AM or EN; once language taps of
\* a user have been stored, the user's language is that of one of them; and
\* an About sends the description of a language the user's session held
\* between the delivery's arrival and its read (the old or a new one).
StoredTaps(u) ==
    {inflight[p].req.data : p \in {q \in Procs :
        /\ inflight[q].pc \in {"send", "done"}
        /\ inflight[q].req.user = u
        /\ inflight[q].req.data \in {LANG_AMHARIC, LANG_ENGLISH}}}

C19_SessionToleratesInterleaving ==
    /\ \A u \in Users : user_data[u] \in {NoLang, LANG_AMHARIC, LANG_ENGLISH}
    /\ dispatcher =>
          \A u \in Users : StoredTaps(u) # {} => user_data[u] \in StoredTaps(u)
    /\ \A p \in Procs :
          (inflight[p].pc \in {"send", "done"} /\ dispatcher
              /\ inflight[p].req.data = ACTION_ABOUT) =>
             \E l \in inflight[p].seen :
                inflight[p].text = (IF l = LANG_ENGLISH
                                    THEN ABOUT_TEXT_EN ELSE ABOUT_TEXT_AM)

C19_Witness ==
    \E p, q \in Procs :
        /\ inflight[p].pc = "done" /\ inflight[q].pc = "done"
        /\ inflight[p].req.user = inflight[q].req.user
        /\ inflight[p].req.data = LANG_ENGLISH
        /\ inflight[q].req.data = ACTION_ABOUT
        /\ inflight[q].seen = {LANG_AMHARIC, LANG_ENGLISH}
        /\ inflight[q].text = ABOUT_TEXT_EN
        /\ user_data[inflight[q].req.user] = LANG_ENGLISH
====
